---- MODULE Spec2Model ----
(***************************************************************************)
(* Model of melody_dummy/survival_functions.py: the survival frame builder *)
(* (create_survival_dataframe) and the monthly expansion engine            *)
(* (expand_to_monthly).                                                    *)
(*                                                                         *)
(* A date is a record [y, m, d] of the Gregorian calendar at whole-day     *)
(* granularity; NaT (pandas' missing timestamp) is the record of zeros.    *)
(* A table (DataFrame) is a sequence of rows, a row a record keyed by      *)
(* column name.                                                            *)
(***************************************************************************)
EXTENDS Integers, Sequences, FiniteSets, TLC

VARIABLES
    pc,                 \* "input" | "built" | "build_failed" | "survival" | "expanded" | "expand_failed"
    df_in,              \* the caller's input table of create_survival_dataframe
    end_event_priority, \* the end_event_priority argument of the last build
    build_columns,      \* the additional_columns argument of the last build
    build_error,        \* the exception create_survival_dataframe raised, or NoError
    build_error_detail, \* what the message of that exception names
    cols_parsed,        \* how many date columns pd.to_datetime converted in the last build
    rows_applied,       \* how many rows determine_end_date was called on in the last build
    df_survival,        \* the table create_survival_dataframe returned / expand_to_monthly is given
    survival_cols,      \* the columns of df_survival, in order
    additional_columns, \* the additional_columns argument of the last expansion
    time_checksum,      \* the time_checksum argument of the last expansion
    expand_error,       \* the exception expand_to_monthly raised, or NoError
    output_df,          \* the table expand_to_monthly returned
    output_cols,        \* the columns of output_df, in order
    with_pc,            \* "outside" | "body" | "exit" | "raised": where a with-block on a session is
    session,            \* the session of the current DBSessionContextManager block
    exc_type,           \* the exc_type __exit__ is called with
    sessions_left       \* per block that was left: what happened to its session

vars == <<pc, df_in, end_event_priority, build_columns, build_error, build_error_detail,
          cols_parsed, rows_applied, df_survival, survival_cols, additional_columns,
          time_checksum, expand_error, output_df, output_cols,
          with_pc, session, exc_type, sessions_left>>

(***************************************************************************)
(* Dates                                                                   *)
(***************************************************************************)
Date(y, m, d) == [y |-> y, m |-> m, d |-> d]

NaT == Date(0, 0, 0)

isna(date) == date = NaT

IsLeap(y) == (y % 4 = 0 /\ y % 100 # 0) \/ y % 400 = 0

DaysInMonth(y, m) ==
    IF m = 2 THEN (IF IsLeap(y) THEN 29 ELSE 28)
    ELSE IF m \in {4, 6, 9, 11} THEN 30 ELSE 31

\* Timestamp comparison: chronological order on (year, month, day).
DateLT(a, b) ==
    \/ a.y < b.y
    \/ a.y = b.y /\ a.m < b.m
    \/ a.y = b.y /\ a.m = b.m /\ a.d < b.d

DateLE(a, b) == a = b \/ DateLT(a, b)

\* A comparison that takes every end date for valid.
DateGE_accepting(a, b) == TRUE

\* Comparison with NaT on either side is False (pandas).
DateGE(a, b) == ~isna(a) /\ ~isna(b) /\ DateLE(b, a)

DateGT(a, b) == ~isna(a) /\ ~isna(b) /\ DateLT(b, a)

RECURSIVE DaysBeforeMonth(_, _)
DaysBeforeMonth(y, m) ==
    IF m <= 1 THEN 0 ELSE DaysBeforeMonth(y, m - 1) + DaysInMonth(y, m - 1)

\* Proleptic Gregorian ordinal of a date (day 1 is 0001-01-01).
Ordinal(date) ==
    LET py == date.y - 1
    IN  365 * py + (py \div 4) - (py \div 100) + (py \div 400)
        + DaysBeforeMonth(date.y, date.m) + date.d

\* The difference taken the wrong way round.
DaysBetween_reversed(a, b) == Ordinal(b) - Ordinal(a)

\* (a - b).days
DaysBetween(a, b) == Ordinal(a) - Ordinal(b)

\* max() in place of min().
MinDate_latest(S) == CHOOSE d \in S : \A e \in S : DateLE(e, d)

\* min() of a non-empty collection of timestamps.
MinDate(S) == CHOOSE d \in S : \A e \in S : DateLE(d, e)

(***************************************************************************)
(* create_survival_dataframe                                               *)
(***************************************************************************)
NoError == "none"

PriorityAssertion == "AssertionError: Unexpected argument"

NoEventValueError == "ValueError: Row with no primary, competing or censor date found"

MissingEndAssertion == "AssertionError: Error calculating end dates: Missing end dates"

EndBeforeStartAssertion == "AssertionError: Error calculating end dates: End dates before start"

\* What pd.to_datetime raises on a text it cannot read as a date; its message
\* names the text and its position in the column.
ParseValueError == "ValueError: Unknown datetime string format, unable to parse"

\* An assertion that lets the unexpected argument through.
Priorities_lenient == {"first", "competing", "primary", "last"}

\* The values the assertion on end_event_priority accepts.
Priorities == {"first", "competing", "primary"}

\* An optional argument: None (for a list argument, for an integer
\* argument), or a value.
None == [is_none |-> TRUE, value |-> <<>>]

NoneInt == [is_none |-> TRUE, value |-> 0]

Some(v) == [is_none |-> FALSE, value |-> v]

\* Python truthiness of an optional list / optional integer argument.
TruthyList(arg) == ~arg.is_none /\ arg.value # <<>>

TruthyInt(arg) == ~arg.is_none /\ arg.value # 0

\* The elements of a list.
Range(list) == {list[k] : k \in 1..Len(list)}

\* df[cols] on one row: the row restricted to the named columns.
SelectColumns(row, cols) == [c \in Range(cols) |-> row[c]]

\* The four date columns, in the order the code converts them.
date_columns == <<"start_event", "primary_event", "competing_event", "censor">>

\* A cell holding text instead of a timestamp.
Text(s) == [str |-> s]

IsText(v) == "str" \in DOMAIN v

\* The texts pd.to_datetime reads as a date; any other text is unparsable.
ParsedText == [s \in {"2021-04-20"} |-> Date(2021, 4, 20)]

Parsable(v) == IsText(v) => v.str \in DOMAIN ParsedText

\* pd.to_datetime on one parsable cell: a missing value becomes NaT, a
\* timestamp stays the timestamp of that day, a text becomes the date it spells.
to_datetime(v) ==
    IF IsText(v) THEN ParsedText[v.str]
    ELSE IF isna(v) THEN NaT
    ELSE Date(v.y, v.m, v.d)

\* The first date column (by its index in date_columns) holding an unparsable
\* cell and the first row holding one in it; column 0 when every cell parses.
FirstUnparsable(rows) ==
    LET bad_cols == {k \in 1..Len(date_columns) :
                        \E i \in 1..Len(rows) : ~Parsable(rows[i][date_columns[k]])}
    IN  IF bad_cols = {} THEN [column |-> 0, row |-> 0]
        ELSE LET k == CHOOSE c \in bad_cols : \A o \in bad_cols : c <= o
                 bad_rows == {i \in 1..Len(rows) : ~Parsable(rows[i][date_columns[k]])}
             IN  [column |-> k, row |-> CHOOSE i \in bad_rows : \A o \in bad_rows : i <= o]

\* The frame after the first n date columns are converted in place.
ConvertColumns(rows, n) ==
    [i \in 1..Len(rows) |->
        [c \in DOMAIN rows[i] |->
            IF \E k \in 1..n : date_columns[k] = c THEN to_datetime(rows[i][c])
            ELSE rows[i][c]]]

\* A frame that is the caller's table itself, not a copy of it.
copy_alias(table) == [object |-> "df_in", rows |-> table]

\* df_in.copy(deep=True): a new frame holding the same rows.
copy_deep(table) == [object |-> "copy", rows |-> table]

\* One row of the working copy after the date columns are converted and the
\* four new columns are initialised from them.
WithDateColumns(row) ==
    LET new == {"start_date", "primary_event_date", "competing_event_date", "censor_date"}
    IN  [c \in DOMAIN row \cup new |->
            IF c = "start_date" THEN to_datetime(row.start_event)
            ELSE IF c = "primary_event_date" THEN to_datetime(row.primary_event)
            ELSE IF c = "competing_event_date" THEN to_datetime(row.competing_event)
            ELSE IF c = "censor_date" THEN to_datetime(row.censor)
            ELSE IF c \in Range(date_columns) THEN to_datetime(row[c])
            ELSE row[c]]

\* The events dict of determine_end_date, as the function name -> date.
EventsDict(row) ==
    [e \in {"primary", "competing", "censor"} |->
        IF e = "primary" THEN row.primary_event_date
        ELSE IF e = "competing" THEN row.competing_event_date
        ELSE row.censor_date]

\* The keys left after the None values are filtered out.
PresentEvents(row) ==
    {e \in DOMAIN EventsDict(row) : ~isna(EventsDict(row)[e])}

\* A priority rule that treats 'first' as 'primary'.
SurvivingEvents_first_pops(row, priority) ==
    LET events == PresentEvents(row)
    IN  IF "primary" \in events /\ "competing" \in events
        THEN IF priority = "competing" THEN events \ {"primary"}
             ELSE events \ {"competing"}
        ELSE events

\* A priority rule that never pops.
SurvivingEvents_keeps_both(row, priority) == PresentEvents(row)

\* A priority rule that also pops the censor date when both events are present.
SurvivingEvents_censor_popped(row, priority) ==
    LET events == PresentEvents(row)
    IN  IF "primary" \in events /\ "competing" \in events
        THEN IF priority = "primary" THEN {"primary"}
             ELSE IF priority = "competing" THEN {"competing"}
             ELSE events
        ELSE events

\* The keys left after the priority rule has popped the other event.
SurvivingEvents(row, priority) ==
    LET events == PresentEvents(row)
    IN  IF "primary" \in events /\ "competing" \in events
        THEN IF priority = "primary" THEN events \ {"competing"}
             ELSE IF priority = "competing" THEN events \ {"primary"}
             ELSE events
        ELSE events

\* A callback that returns NaT for a row without any event instead of raising.
determine_end_date_nat(row, priority) ==
    IF PresentEvents(row) = {}
    THEN [raised |-> FALSE, value |-> NaT]
    ELSE [raised |-> FALSE,
          value  |-> MinDate({EventsDict(row)[e] : e \in SurvivingEvents(row, priority)})]

\* determine_end_date(row): [raised |-> TRUE] when the row has no event at
\* all, else the minimum of the surviving dates.
determine_end_date(row, priority) ==
    IF PresentEvents(row) = {}
    THEN [raised |-> TRUE, value |-> NaT]
    ELSE [raised |-> FALSE,
          value  |-> MinDate({EventsDict(row)[e] : e \in SurvivingEvents(row, priority)})]

\* Index of the first row on which df.apply's callback raises, 0 if none.
FirstRaising(df, priority) ==
    LET bad == {i \in 1..Len(df) : determine_end_date(df[i], priority).raised}
    IN  IF bad = {} THEN 0 ELSE CHOOSE i \in bad : \A j \in bad : i <= j

\* The check with .any() in place of .all().
EndDatesNotBeforeStart_any(df, end_date) ==
    \E i \in 1..Len(df) : DateGE(end_date[i], df[i].start_date)

\* (df['end_date'] >= df['start_date']).all()
EndDatesNotBeforeStart(df, end_date) ==
    \A i \in 1..Len(df) : DateGE(end_date[i], df[i].start_date)

\* The column order of a table that takes every column for a passthrough.
out_cols_input_order(extra_columns) ==
    <<"id", "sex", "region", "start_date", "primary_event_date", "competing_event_date",
      "censor_date", "end_date", "time_at_risk">>

\* out_cols: the identifier, the additional columns in the order given (none
\* when the argument is None or empty), then the six computed columns.
out_cols(extra_columns) ==
    <<"id">> \o (IF TruthyList(extra_columns) THEN extra_columns.value ELSE <<>>)
        \o <<"start_date", "primary_event_date", "competing_event_date",
             "censor_date", "end_date", "time_at_risk">>

\* One row of the working copy with end_date set.
WithEndDate(row, priority) ==
    [c \in DOMAIN row \cup {"end_date"} |->
        IF c = "end_date" THEN determine_end_date(row, priority).value ELSE row[c]]

\* The .dt.days of a difference with NaT on either side: a null, kept
\* apart from every number of days by a value no difference of two dates
\* of the calendar reaches.
NaN == -1000000

\* One row of the working copy with time_at_risk set: the days from
\* start_date to end_date, NaN when one of them is NaT.
WithTimeAtRisk(row) ==
    [c \in DOMAIN row \cup {"time_at_risk"} |->
        IF c = "time_at_risk"
        THEN IF isna(row.end_date) \/ isna(row.start_date) THEN NaN
             ELSE DaysBetween(row.end_date, row.start_date)
        ELSE row[c]]

\* A selection that fills every additional column from the first of them.
SurvivalRow_first_column(row, extra_columns) ==
    [c \in Range(out_cols(extra_columns)) |->
        IF c \in Range(extra_columns.value) THEN row[extra_columns.value[1]] ELSE row[c]]

\* The row returned for one subject: df[out_cols].
SurvivalRow(row, extra_columns) == SelectColumns(row, out_cols(extra_columns))

\* A selection that returns the first row once per row of the frame.
ReturnedRows_first_repeated(df, extra_columns) ==
    [i \in 1..Len(df) |-> SurvivalRow(df[1], extra_columns)]

\* The table returned: df[out_cols], the rows of the frame one by one in
\* the frame's order.
ReturnedRows(df, extra_columns) ==
    [i \in 1..Len(df) |-> SurvivalRow(df[i], extra_columns)]

\* The whole call: the exception raised (or NoError) and what its message
\* names, the table returned and its columns, how far the call got (date
\* columns converted, rows the callback ran on), and the caller's table as
\* the call leaves it.
create_survival_dataframe(table, priority, extra_columns) ==
    LET frame == copy_deep(table)
        Exit(err, detail, out, columns, parsed, applied, rows) ==
            [err |-> err, detail |-> detail, out |-> out, columns |-> columns,
             cols_parsed |-> parsed, rows_applied |-> applied,
             caller |-> IF frame.object = "df_in" THEN rows ELSE table]
        bad == FirstUnparsable(frame.rows)
    IN  IF priority \notin Priorities
        THEN Exit(PriorityAssertion, <<>>, <<>>, <<>>, 0, 0, frame.rows)
        ELSE IF bad.column # 0
        THEN Exit(ParseValueError,
                  [value    |-> frame.rows[bad.row][date_columns[bad.column]].str,
                   position |-> bad.row - 1],
                  <<>>, <<>>, bad.column - 1, 0,
                  ConvertColumns(frame.rows, bad.column - 1))
        ELSE
        LET df       == [i \in 1..Len(table) |-> WithDateColumns(frame.rows[i])]
            raising  == FirstRaising(df, priority)
            end_date == [i \in 1..Len(df) |-> determine_end_date(df[i], priority).value]
            with_end == [i \in 1..Len(df) |-> WithEndDate(df[i], priority)]
            all_cols == [i \in 1..Len(df) |-> WithTimeAtRisk(with_end[i])]
        IN  IF raising # 0
            THEN Exit(NoEventValueError, <<>>, <<>>, <<>>,
                      Len(date_columns), raising, df)
            ELSE IF \E i \in 1..Len(df) : isna(end_date[i])
            THEN Exit(MissingEndAssertion, <<>>, <<>>, <<>>,
                      Len(date_columns), Len(df), with_end)
            ELSE IF ~EndDatesNotBeforeStart(df, end_date)
            THEN Exit(EndBeforeStartAssertion, <<>>, <<>>, <<>>,
                      Len(date_columns), Len(df), with_end)
            ELSE Exit(NoError, <<>>,
                      ReturnedRows(all_cols, extra_columns),
                      out_cols(extra_columns), Len(date_columns), Len(df), all_cols)

(***************************************************************************)
(* expand_to_monthly                                                       *)
(***************************************************************************)
NoneTypeError == "TypeError: Value after * must be an iterable, not NoneType"

ColumnsKeyError == "KeyError: None of the columns are in the [columns]"

MaxTimeAssertion == "AssertionError: Process failure: Invalid Time exceeding 31 days"

MinTimeAssertion == "AssertionError: Process failure: Invalid Time of less than 1 days"

ChecksumAssertion == "AssertionError: Process failure: Checksum"

\* timestamp.replace(day=1)
replace_day_1(date) == Date(date.y, date.m, 1)

\* A roll to the month end that takes every February for 28 days.
MonthEnd0_no_leap(date) ==
    Date(date.y, date.m, IF date.m = 2 THEN 28 ELSE DaysInMonth(date.y, date.m))

\* timestamp + MonthEnd(0): rolled forward to the last day of its month
\* (unchanged when it already is that day).
MonthEnd0(date) == Date(date.y, date.m, DaysInMonth(date.y, date.m))

\* The next month start after a month start (one step of freq='MS').
NextMonthStart(date) ==
    IF date.m = 12 THEN Date(date.y + 1, 1, 1) ELSE Date(date.y, date.m + 1, 1)

\* A range that is open on the left: it leaves the start month out.
RECURSIVE date_range_open_left(_, _)
date_range_open_left(start, end) ==
    IF DateLT(end, NextMonthStart(start)) THEN <<>>
    ELSE <<NextMonthStart(start)>> \o date_range_open_left(NextMonthStart(start), end)

\* A range that runs one month start past its end.
RECURSIVE date_range_one_past(_, _)
date_range_one_past(start, end) ==
    IF DateLT(end, start) THEN <<start>>
    ELSE <<start>> \o date_range_one_past(NextMonthStart(start), end)

\* pd.date_range(start, end, freq='MS') for a start that is a month start:
\* the month starts from start up to end, empty when start is after end.
RECURSIVE date_range(_, _)
date_range(start, end) ==
    IF DateLT(end, start) THEN <<>>
    ELSE <<start>> \o date_range(NextMonthStart(start), end)

MonthAbbr ==
    <<"Jan", "Feb", "Mar", "Apr", "May", "Jun",
      "Jul", "Aug", "Sep", "Oct", "Nov", "Dec">>

Digit == <<"0", "1", "2", "3", "4", "5", "6", "7", "8", "9">>

\* date.strftime('%b-%y'): month abbreviation, dash, year without century
\* as two digits.
strftime_b_y(date) ==
    LET yy == date.y % 100
    IN  MonthAbbr[date.m] \o "-" \o Digit[(yy \div 10) + 1] \o Digit[(yy % 10) + 1]

\* The loop body without the single-month case of the end-month adjustment.
contributed_days_no_single_month(start_date, end_date, date) ==
    LET days_in_month == MonthEnd0(date).d
        for_start     == IF date.y = start_date.y /\ date.m = start_date.m
                         THEN days_in_month - start_date.d + 1
                         ELSE days_in_month
        for_end       == IF date.y = end_date.y /\ date.m = end_date.m
                         THEN end_date.d
                         ELSE for_start
    IN  IF DateGT(date, end_date) THEN 0 ELSE for_end

\* The loop body with the start day itself not counted in the start month.
contributed_days_start_off_by_one(start_date, end_date, date) ==
    LET start_month   == replace_day_1(start_date)
        days_in_month == MonthEnd0(date).d
        for_start     == IF date.y = start_date.y /\ date.m = start_date.m
                         THEN days_in_month - start_date.d
                         ELSE days_in_month
        for_end       == IF date.y = end_date.y /\ date.m = end_date.m
                         THEN IF date = start_month
                              THEN end_date.d - start_date.d + 1
                              ELSE end_date.d
                         ELSE for_start
    IN  IF DateGT(date, end_date) THEN 0 ELSE for_end

\* The days one row contributes to the month starting at date: the chain of
\* adjustments of the loop body, in the order the code applies them.
contributed_days(start_date, end_date, date) ==
    LET start_month   == replace_day_1(start_date)
        days_in_month == MonthEnd0(date).d
        for_start     == IF date.y = start_date.y /\ date.m = start_date.m
                         THEN days_in_month - start_date.d + 1
                         ELSE days_in_month
        for_end       == IF date.y = end_date.y /\ date.m = end_date.m
                         THEN IF date = start_month
                              THEN end_date.d - start_date.d + 1
                              ELSE end_date.d
                         ELSE for_start
    IN  IF DateGT(date, end_date) THEN 0 ELSE for_end

\* The right-hand side row[col] of the additional-columns loop raises this
\* when the row has no such column.
MissingColumnKeyError == "KeyError: additional column not in the row"

\* The columns a monthly record is built with: the three named columns,
\* month and time, and the additional columns when the argument is truthy.
record_columns(extra_columns) ==
    {"id", "start_date", "end_date", "month", "time"}
        \cup (IF TruthyList(extra_columns) THEN Range(extra_columns.value) ELSE {})

\* The monthly_record dict of one row for the month starting at date.
monthly_record(row, date, extra_columns) ==
    [c \in record_columns(extra_columns) |->
        IF c = "month" THEN strftime_b_y(date)
        ELSE IF c = "time" THEN contributed_days(row.start_date, row.end_date, date)
        ELSE row[c]]

\* The records one row appends to monthly_records, one per month start of
\* its date range, in the order of the range.
RowRecords(row, extra_columns) ==
    LET range == date_range(replace_day_1(row.start_date), MonthEnd0(row.end_date))
    IN  [k \in 1..Len(range) |-> monthly_record(row, range[k], extra_columns)]

\* A loop that puts the records of each row in front of those before it.
RECURSIVE monthly_records_prepended(_, _, _)
monthly_records_prepended(df, n, extra_columns) ==
    IF n = 0 THEN <<>>
    ELSE RowRecords(df[n], extra_columns) \o monthly_records_prepended(df, n - 1, extra_columns)

\* monthly_records after the loop over the first n rows.
RECURSIVE monthly_records(_, _, _)
monthly_records(df, n, extra_columns) ==
    IF n = 0 THEN <<>>
    ELSE monthly_records(df, n - 1, extra_columns) \o RowRecords(df[n], extra_columns)

\* pd.date_range raises this when the start or the end of the range is NaT.
NaTRangeError == "ValueError: Neither start nor end can be NaT"

\* What the loop body raises on one row: the date range cannot be built from
\* a NaT date; else, with a truthy additional_columns and a month to record,
\* row[col] fails for a column the row does not have; else nothing.
RowError(row, extra_columns) ==
    IF isna(row.start_date) \/ isna(row.end_date) THEN NaTRangeError
    ELSE IF /\ TruthyList(extra_columns)
            /\ ~DateLT(MonthEnd0(row.end_date), replace_day_1(row.start_date))
            /\ ~(Range(extra_columns.value) \subseteq DOMAIN row)
    THEN MissingColumnKeyError
    ELSE NoError

\* What the loop over the rows raises: the error of the first row that has one.
LoopError(df, extra_columns) ==
    LET bad == {i \in 1..Len(df) : RowError(df[i], extra_columns) # NoError}
    IN  IF bad = {} THEN NoError
        ELSE RowError(df[CHOOSE i \in bad : \A j \in bad : i <= j], extra_columns)

\* The column list of the reordering, for an argument that is a list.
reorder_columns(extra_columns) ==
    <<"id">> \o extra_columns.value \o <<"end_date", "month", "time">>

RECURSIVE SumTime(_, _)
SumTime(records, n) ==
    IF n = 0 THEN 0 ELSE SumTime(records, n - 1) + records[n].time

\* The whole call: the exception raised (or NoError), the table returned and
\* its columns.
expand_to_monthly(df, extra_columns, checksum) ==
    LET Raise(err) == [err |-> err, out |-> <<>>, columns |-> <<>>]
        loop_error == LoopError(df, extra_columns)
    IN  IF loop_error # NoError THEN Raise(loop_error)
        ELSE IF extra_columns.is_none THEN Raise(NoneTypeError)
        ELSE
        LET records == monthly_records(df, Len(df), extra_columns)
            columns == reorder_columns(extra_columns)
            times   == {records[k].time : k \in 1..Len(records)}
        IN  IF records = <<>> THEN Raise(ColumnsKeyError)
            ELSE IF ~(\A t \in times : t <= 31) THEN Raise(MaxTimeAssertion)
            ELSE IF ~(\A t \in times : t >= 1) THEN Raise(MinTimeAssertion)
            ELSE IF TruthyInt(checksum) /\ ~(SumTime(records, Len(records)) # checksum.value)
            THEN Raise(ChecksumAssertion)
            ELSE [err     |-> NoError,
                  out     |-> [k \in 1..Len(records) |-> SelectColumns(records[k], columns)],
                  columns |-> columns]

(***************************************************************************)
(* DBSessionContextManager and the with-blocks that use it                 *)
(***************************************************************************)
MaxBlocks == 3

\* exc_type of a block whose body did not raise.
NoException == "None"

\* self.session before __enter__: None.
NoSession == [caller |-> "none", state |-> "none", calls |-> <<>>]

\* The functions that open a with-block on a DBSessionContextManager.
Callers == {"insert_dataframe_to_table", "execute_raw_sql"}

\* A call into the SQLAlchemy session returns or raises.
CallOutcomes == {"returns", "raises"}

\* The variables of the session model.
session_vars == <<with_pc, session, exc_type, sessions_left>>

\* No with-block has been entered.
NoBlock ==
    /\ with_pc = "outside"
    /\ session = NoSession
    /\ exc_type = NoException
    /\ sessions_left = <<>>

\* The variables of the survival functions.
survival_vars ==
    <<pc, df_in, end_event_priority, build_columns, build_error, build_error_detail,
      cols_parsed, rows_applied, df_survival, survival_cols, additional_columns,
      time_checksum, expand_error, output_df, output_cols>>

\* __enter__: the session factory makes a session, which the block receives.
Enter(caller) ==
    /\ with_pc = "outside"
    /\ Len(sessions_left) < MaxBlocks
    /\ session' = [caller |-> caller, state |-> "open", calls |-> <<>>]
    /\ with_pc' = "body"
    /\ exc_type' = NoException
    /\ UNCHANGED <<sessions_left, survival_vars>>

\* The body runs to its end: df.to_sql or session.execute returned.
BodyReturns ==
    /\ with_pc = "body"
    /\ with_pc' = "exit"
    /\ exc_type' = NoException
    /\ UNCHANGED <<session, sessions_left, survival_vars>>

\* The body of insert_dataframe_to_table catches the IntegrityError of
\* df.to_sql, rolls the session back and runs to its end.
BodyCatchesIntegrityError ==
    /\ with_pc = "body"
    /\ session.caller = "insert_dataframe_to_table"
    /\ session' = [session EXCEPT !.calls = Append(@, "rollback")]
    /\ with_pc' = "exit"
    /\ exc_type' = NoException
    /\ UNCHANGED <<sessions_left, survival_vars>>

\* The body raises an exception it does not catch.
BodyRaises ==
    /\ with_pc = "body"
    /\ with_pc' = "exit"
    /\ exc_type' = "Exception"
    /\ UNCHANGED <<session, sessions_left, survival_vars>>

\* The call __exit__ makes first: rollback() when exc_type is set, else
\* commit().
exit_call(exc) == IF exc # NoException THEN "rollback" ELSE "commit"

\* What __exit__ does to the session: exit_call, then close(); when the
\* rollback or the commit raises, close() is not reached.
exit_session(sess, exc, outcome) ==
    IF outcome = "raises"
    THEN [sess EXCEPT !.calls = Append(@, exit_call(exc))]
    ELSE [sess EXCEPT !.calls = @ \o <<exit_call(exc), "close">>, !.state = "closed"]

\* __exit__, with the outcome of its rollback or commit: the block is left
\* normally when neither the body nor __exit__ raised (__exit__ returns
\* None, so an exception of the body propagates).
Exit(outcome) ==
    /\ with_pc = "exit"
    /\ \E after \in {exit_session(session, exc_type, outcome)} :
           /\ session' = after
           /\ sessions_left' =
                  Append(sessions_left,
                         [body_raised |-> exc_type # NoException,
                          exit_call   |-> exit_call(exc_type),
                          exit_raised |-> outcome = "raises",
                          calls       |-> after.calls,
                          state       |-> after.state])
    /\ with_pc' = IF exc_type = NoException /\ outcome = "returns" THEN "outside" ELSE "raised"
    /\ UNCHANGED <<exc_type, survival_vars>>

(***************************************************************************)
(* Inputs of the builder                                                   *)
(***************************************************************************)
MaxRows == 2

\* The dates the cells of the input tables are drawn from: observation
\* starts on 2021-04-20; the events are those of the documented scenario
\* (2021-04-20, 2021-05-01); the censor date lies before the start, between
\* the two events, or after both (2021-06-01, the scenario's). NaT is an
\* absent date.
StartDates == {Date(2021, 4, 20)}

EventDates == {Date(2021, 4, 20), Date(2021, 5, 1)}

CensorDates == {Date(2021, 4, 10), Date(2021, 4, 25), Date(2021, 6, 1)}

\* An argument the priority assertion rejects.
BadPriority == "last"

InputCells ==
    [start_event     : StartDates,
     primary_event   : EventDates \cup {NaT},
     competing_event : EventDates \cup {NaT},
     censor          : CensorDates \cup {NaT}]

\* The identifier and the passthrough attributes of the subject in row i.
SubjectId(i) == 100 + i

Sex(i) == IF i % 2 = 1 THEN "F" ELSE "M"

Region(i) == "R" \o Digit[i + 1]

\* The input table holding the given cells: per subject an identifier, two
\* passthrough attributes and the four date columns.
InputTable(cells) ==
    [i \in DOMAIN cells |->
        [id              |-> SubjectId(i),
         sex             |-> Sex(i),
         region          |-> Region(i),
         start_event     |-> cells[i].start_event,
         primary_event   |-> cells[i].primary_event,
         competing_event |-> cells[i].competing_event,
         censor          |-> cells[i].censor]]

\* The passthrough columns, in an order that is not the table's.
Passthrough == <<"region", "sex">>

\* The arguments (end_event_priority, additional_columns) of the build:
\* every priority with the passthrough columns, and the default
\* additional_columns = None.
BuildArgs ==
    {<<priority, Some(Passthrough)>> : priority \in Priorities \cup {BadPriority}}
        \cup {<<"first", None>>}

\* The state before any call on the given input table.
Start(table) ==
    /\ pc = "input"
    /\ df_in = table
    /\ end_event_priority = "first"
    /\ build_columns = None
    /\ build_error = NoError
    /\ build_error_detail = <<>>
    /\ cols_parsed = 0
    /\ rows_applied = 0
    /\ df_survival = <<>>
    /\ survival_cols = <<>>
    /\ additional_columns = None
    /\ time_checksum = NoneInt
    /\ expand_error = NoError
    /\ output_df = <<>>
    /\ output_cols = <<>>
    /\ NoBlock

\* Before the call: an input table of one to MaxRows rows.
Init ==
    \E n \in 1..MaxRows : \E cells \in [1..n -> InputCells] : Start(InputTable(cells))

\* One call create_survival_dataframe(df_in, 'id', ..., end_event_priority = priority,
\* additional_columns = extra_columns).
Build(priority, extra_columns) ==
    /\ pc = "input"
    /\ \E r \in {create_survival_dataframe(df_in, priority, extra_columns)} :
           /\ pc' = IF r.err = NoError THEN "built" ELSE "build_failed"
           /\ df_in' = r.caller
           /\ end_event_priority' = priority
           /\ build_columns' = extra_columns
           /\ build_error' = r.err
           /\ build_error_detail' = r.detail
           /\ cols_parsed' = r.cols_parsed
           /\ rows_applied' = r.rows_applied
           /\ df_survival' = r.out
           /\ survival_cols' = r.columns
    /\ UNCHANGED <<additional_columns, time_checksum, expand_error, output_df, output_cols,
                   session_vars>>

(***************************************************************************)
(* Inputs of the expansion                                                 *)
(***************************************************************************)
MaxRecords == 2

NumYears == 2

\* The calendar the single-record tables range over: a leap year first, the
\* years after it, every month, and the days at the edges of a month.
Years == 2020..(2019 + NumYears)

CalendarDays == {1, 15, 28, 29, 30, 31}

CalendarDates ==
    {date \in [y : Years, m : 1..12, d : CalendarDays] : date.d <= DaysInMonth(date.y, date.m)}

\* The dates of the documented scenarios, for tables of several records.
ScenarioDates == {Date(2021, 1, 15), Date(2021, 1, 20), Date(2021, 3, 10)}

\* The arguments additional_columns and time_checksum are called with.
ExtraColumnArgs == {None, Some(<<>>), Some(Passthrough)}

ChecksumArgs == {NoneInt, Some(55)}

\* The arguments (additional_columns, time_checksum) of the expansion of a
\* table given directly: the default, a list with and without a checksum,
\* and the passthrough columns.
ExpandArgs ==
    {<<None, NoneInt>>, <<Some(<<>>), NoneInt>>, <<Some(<<>>), Some(55)>>,
     <<Some(Passthrough), NoneInt>>}

\* The survival table holding the given intervals, with the identifier and
\* the passthrough attributes of each subject.
SurvivalTable(intervals) ==
    [i \in DOMAIN intervals |->
        [id         |-> SubjectId(i),
         sex        |-> Sex(i),
         region     |-> Region(i),
         start_date |-> intervals[i].start_date,
         end_date   |-> intervals[i].end_date]]

\* A survival table handed to expand_to_monthly directly: one record over the
\* calendar, or up to MaxRecords records over the scenario dates; intervals
\* with end_date before start_date included.
InitExpand ==
    /\ pc = "survival"
    /\ df_in = <<>>
    /\ end_event_priority = "first"
    /\ build_columns = None
    /\ build_error = NoError
    /\ build_error_detail = <<>>
    /\ cols_parsed = 0
    /\ rows_applied = 0
    /\ \/ \E iv \in [start_date : CalendarDates, end_date : CalendarDates] :
             df_survival = SurvivalTable(<<iv>>)
       \/ \E n \in 1..MaxRecords :
             \E ivs \in [1..n -> [start_date : ScenarioDates, end_date : ScenarioDates]] :
                df_survival = SurvivalTable(ivs)
    /\ survival_cols = <<"id", "sex", "region", "start_date", "end_date">>
    /\ additional_columns = None
    /\ time_checksum = NoneInt
    /\ expand_error = NoError
    /\ output_df = <<>>
    /\ output_cols = <<>>
    /\ NoBlock

\* One call expand_to_monthly(df_survival, 'id', additional_columns = extra_columns,
\* time_checksum = checksum), on the builder's output or on a table given directly.
Expand(extra_columns, checksum) ==
    /\ pc \in {"built", "survival"}
    /\ \E r \in {expand_to_monthly(df_survival, extra_columns, checksum)} :
           /\ pc' = IF r.err = NoError THEN "expanded" ELSE "expand_failed"
           /\ expand_error' = r.err
           /\ output_df' = r.out
           /\ output_cols' = r.columns
    /\ additional_columns' = extra_columns
    /\ time_checksum' = checksum
    /\ UNCHANGED <<df_in, end_event_priority, build_columns, build_error, build_error_detail,
                   cols_parsed, rows_applied, df_survival, survival_cols, session_vars>>

(***************************************************************************)
(* Inputs of the pipeline: build, then expansion of what build returned    *)
(***************************************************************************)
\* Cells of well-typed rows: the start on 2021-04-20, each event absent or on
\* one day, the censor date absent, before the start or after the events.
TypedCells ==
    [start_event     : StartDates,
     primary_event   : {NaT, Date(2021, 5, 1)},
     competing_event : {NaT, Date(2021, 4, 20)},
     censor          : {NaT, Date(2021, 4, 10), Date(2021, 6, 1)}]

\* A row of the documented scenario.
ScenarioCells ==
    [start_event     |-> Date(2021, 4, 20),
     primary_event   |-> Date(2021, 5, 1),
     competing_event |-> NaT,
     censor          |-> Date(2021, 6, 1)]

\* Rows holding text: the scenario row with one date cell replaced by a text
\* that is no date, one row per date column, and the scenario row with its
\* start written as a text that is a date.
TextCells ==
    {[ScenarioCells EXCEPT ![date_columns[k]] = Text("not a date")] : k \in 1..Len(date_columns)}
        \cup {[ScenarioCells EXCEPT !.start_event = Text("2021-04-20")]}

\* The scenario row with its start date missing.
NullStartCells == {[ScenarioCells EXCEPT !.start_event = NaT]}

PipelineCells == TypedCells \cup TextCells \cup NullStartCells

\* The arguments of the build in the pipeline.
PipelineBuildArgs ==
    {<<"first", Some(Passthrough)>>, <<"primary", None>>, <<BadPriority, Some(<<>>)>>}

InitPipeline ==
    \E n \in 1..MaxRows : \E cells \in [1..n -> PipelineCells] : Start(InputTable(cells))

Next ==
    \E args \in BuildArgs : Build(args[1], args[2])

NextExpand ==
    \E args \in ExpandArgs : Expand(args[1], args[2])

NextPipeline ==
    \/ \E args \in PipelineBuildArgs : Build(args[1], args[2])
    \/ \E extra_columns \in ExtraColumnArgs, checksum \in ChecksumArgs :
          Expand(extra_columns, checksum)

\* Before any with-block, no table being processed.
InitSession == Start(<<>>)

NextSession ==
    \/ \E caller \in Callers : Enter(caller)
    \/ BodyReturns
    \/ BodyCatchesIntegrityError
    \/ BodyRaises
    \/ \E outcome \in CallOutcomes : Exit(outcome)

Spec == Init /\ [][Next]_vars

SpecSession == InitSession /\ [][NextSession]_vars

SpecExpand == InitExpand /\ [][NextExpand]_vars

SpecPipeline == InitPipeline /\ [][NextPipeline]_vars

(***************************************************************************)
(* Properties of the builder, stated of the behaviours of Spec             *)
(***************************************************************************)
\* The priority values the specification documents.
ValidPriorities == {"first", "primary", "competing"}

\* create_survival_dataframe was called and returned a table.
BuildReturned == pc \in {"built", "expanded", "expand_failed"}

\* create_survival_dataframe was called and raised.
BuildRaised == pc = "build_failed"

\* The non-null dates among primary event, competing event and censor date
\* of a returned row.
TerminalDates(row) ==
    {d \in {row.primary_event_date, row.competing_event_date, row.censor_date} : d # NaT}

BothEvents(row) == row.primary_event_date # NaT /\ row.competing_event_date # NaT

\* The input row has none of the three terminal dates.
NoTerminalDate(row) ==
    row.primary_event = NaT /\ row.competing_event = NaT /\ row.censor = NaT

\* The day after a date, by the calendar.
NextDay(date) ==
    IF date.d < DaysInMonth(date.y, date.m) THEN Date(date.y, date.m, date.d + 1)
    ELSE IF date.m < 12 THEN Date(date.y, date.m + 1, 1)
    ELSE Date(date.y + 1, 1, 1)

RECURSIVE AddDays(_, _)
AddDays(date, n) == IF n = 0 THEN date ELSE AddDays(NextDay(date), n - 1)

\* C1: whenever create_survival_dataframe returns, every returned row has
\* end_date on or after start_date, whatever the batch and the priority.
C1_EndNotBeforeStart ==
    BuildReturned =>
        \A i \in 1..Len(df_survival) :
            /\ df_survival[i].end_date # NaT
            /\ df_survival[i].start_date # NaT
            /\ ~DateLT(df_survival[i].end_date, df_survival[i].start_date)

\* A returned batch of two subjects under priority 'competing', one ending
\* on its start date and one after it.
C1_Witness ==
    /\ pc = "built"
    /\ end_event_priority = "competing"
    /\ Len(df_survival) = 2
    /\ df_survival[1].end_date = df_survival[1].start_date
    /\ DateLT(df_survival[2].start_date, df_survival[2].end_date)

\* C2: with priority 'first', the end_date of every returned row is the
\* minimum of the non-null dates among primary event, competing event and
\* censor date.
C2_FirstIsMinimum ==
    (BuildReturned /\ end_event_priority = "first") =>
        \A i \in 1..Len(df_survival) :
            /\ df_survival[i].end_date \in TerminalDates(df_survival[i])
            /\ \A d \in TerminalDates(df_survival[i]) : ~DateLT(d, df_survival[i].end_date)

\* The documented scenario: primary 2021-05-01, competing 2021-04-20, censor
\* 2021-06-01 under 'first' gives end_date 2021-04-20.
C2_Witness ==
    /\ pc = "built"
    /\ end_event_priority = "first"
    /\ \E i \in 1..Len(df_survival) :
          /\ df_survival[i].primary_event_date = Date(2021, 5, 1)
          /\ df_survival[i].competing_event_date = Date(2021, 4, 20)
          /\ df_survival[i].censor_date = Date(2021, 6, 1)
          /\ df_survival[i].end_date = Date(2021, 4, 20)

\* C3 as stated: with priority 'primary' (resp. 'competing') and both events
\* present, end_date is the primary (resp. competing) event date.
C3_AuthoritativeEventIsEnd ==
    BuildReturned =>
        \A i \in 1..Len(df_survival) :
            BothEvents(df_survival[i]) =>
                /\ end_event_priority = "primary" =>
                      df_survival[i].end_date = df_survival[i].primary_event_date
                /\ end_event_priority = "competing" =>
                      df_survival[i].end_date = df_survival[i].competing_event_date

\* The censor date is absent or not before the given date.
CensorNotBefore(row, date) ==
    row.censor_date = NaT \/ ~DateLT(row.censor_date, date)

\* C3 amended: with priority 'primary' (resp. 'competing'), both events
\* present and the censor date absent or not before the primary (resp.
\* competing) event date, end_date is the primary (resp. competing) event
\* date, also when the other event is earlier.
C3_AuthoritativeEventUnlessCensoredEarlier ==
    BuildReturned =>
        \A i \in 1..Len(df_survival) :
            BothEvents(df_survival[i]) =>
                /\ (/\ end_event_priority = "primary"
                    /\ CensorNotBefore(df_survival[i], df_survival[i].primary_event_date))
                      => df_survival[i].end_date = df_survival[i].primary_event_date
                /\ (/\ end_event_priority = "competing"
                    /\ CensorNotBefore(df_survival[i], df_survival[i].competing_event_date))
                      => df_survival[i].end_date = df_survival[i].competing_event_date

\* The documented scenario under 'primary': primary 2021-05-01, competing
\* 2021-04-20, censor 2021-06-01 gives end_date 2021-05-01 although the
\* competing event is earlier.
C3_Witness ==
    /\ pc = "built"
    /\ end_event_priority = "primary"
    /\ \E i \in 1..Len(df_survival) :
          /\ df_survival[i].primary_event_date = Date(2021, 5, 1)
          /\ df_survival[i].competing_event_date = Date(2021, 4, 20)
          /\ df_survival[i].censor_date = Date(2021, 6, 1)
          /\ df_survival[i].end_date = Date(2021, 5, 1)

\* C4: if any subject of the batch has none of primary, competing and censor
\* dates, the call raises and returns no row for any subject; the exception
\* is the missing-terminal-event ValueError whenever the priority is one of
\* the three documented values (an undocumented priority is rejected before
\* the rows are looked at, C6).
C4_MissingTerminalEventAborts ==
    (pc # "input" /\ \E i \in 1..Len(df_in) : NoTerminalDate(df_in[i])) =>
        /\ BuildRaised
        /\ df_survival = <<>>
        /\ end_event_priority \in ValidPriorities => build_error = NoEventValueError

\* A batch of two, the first subject well formed and the second without any
\* terminal date, has raised the ValueError.
C4_Witness ==
    /\ BuildRaised
    /\ build_error = NoEventValueError
    /\ Len(df_in) = 2
    /\ ~NoTerminalDate(df_in[1])
    /\ df_in[1].primary_event = Date(2021, 5, 1)
    /\ NoTerminalDate(df_in[2])
    /\ df_survival = <<>>

\* The end date the priority rule gives an input row that has a terminal
\* date: the authoritative event when both events are present, the censor
\* date if that is earlier, else the earliest date present.
ResolvedEnd(row, priority) ==
    LET both  == row.primary_event # NaT /\ row.competing_event # NaT
        kept  == IF both /\ priority = "primary" THEN {row.primary_event, row.censor}
                 ELSE IF both /\ priority = "competing" THEN {row.competing_event, row.censor}
                 ELSE {row.primary_event, row.competing_event, row.censor}
        dates == kept \ {NaT}
    IN  CHOOSE d \in dates : \A e \in dates : ~DateLT(e, d)

\* The end date of the input row resolves to a date before its start date.
EndsBeforeStart(row, priority) ==
    /\ ~NoTerminalDate(row)
    /\ DateLT(ResolvedEnd(row, priority), row.start_event)

\* C5: if the end date computed for any subject is before its start date,
\* the call raises and returns no row: the subject is not dropped while the
\* others are kept. The exception is the end-before-start assertion unless
\* another subject has no terminal date at all (C4).
C5_EndBeforeStartAborts ==
    (/\ pc # "input"
     /\ end_event_priority \in ValidPriorities
     /\ \E i \in 1..Len(df_in) : EndsBeforeStart(df_in[i], end_event_priority)) =>
        /\ BuildRaised
        /\ df_survival = <<>>
        /\ (\A i \in 1..Len(df_in) : ~NoTerminalDate(df_in[i]))
              => build_error = EndBeforeStartAssertion

\* A batch of two, the first subject ending after its start and the second
\* before it, has raised the end-before-start assertion.
C5_Witness ==
    /\ BuildRaised
    /\ build_error = EndBeforeStartAssertion
    /\ Len(df_in) = 2
    /\ ~NoTerminalDate(df_in[1])
    /\ ~EndsBeforeStart(df_in[1], end_event_priority)
    /\ EndsBeforeStart(df_in[2], end_event_priority)
    /\ df_survival = <<>>

\* C6: a priority outside {'first', 'primary', 'competing'} makes the call
\* raise the priority assertion before any date column is parsed and before
\* any end date is computed, whatever the rows contain.
C6_BadPriorityFailsFirst ==
    (pc # "input" /\ end_event_priority \notin ValidPriorities) =>
        /\ BuildRaised
        /\ build_error = PriorityAssertion
        /\ cols_parsed = 0
        /\ rows_applied = 0
        /\ df_survival = <<>>

\* The priority assertion was raised on a batch holding a subject without
\* any terminal date and a subject ending before its start.
C6_Witness ==
    /\ BuildRaised
    /\ end_event_priority = BadPriority
    /\ build_error = PriorityAssertion
    /\ Len(df_in) = 2
    /\ NoTerminalDate(df_in[1])
    /\ EndsBeforeStart(df_in[2], "first")

\* C7: in every returned row time_at_risk is the number of days from
\* start_date to end_date (start_date plus time_at_risk days is end_date);
\* it is never negative and is 0 exactly when end_date equals start_date.
C7_TimeAtRiskIsDayDifference ==
    BuildReturned =>
        \A i \in 1..Len(df_survival) :
            /\ df_survival[i].time_at_risk >= 0
            /\ AddDays(df_survival[i].start_date, df_survival[i].time_at_risk)
                  = df_survival[i].end_date
            /\ df_survival[i].time_at_risk = 0
                  <=> df_survival[i].end_date = df_survival[i].start_date

\* A returned batch with a subject at risk for 0 days and one at risk for the
\* 42 days from 2021-04-20 to 2021-06-01.
C7_Witness ==
    /\ pc = "built"
    /\ Len(df_survival) = 2
    /\ df_survival[1].time_at_risk = 0
    /\ df_survival[1].end_date = df_survival[1].start_date
    /\ df_survival[2].time_at_risk = 42
    /\ df_survival[2].start_date = Date(2021, 4, 20)
    /\ df_survival[2].end_date = Date(2021, 6, 1)

(***************************************************************************)
(* Properties of the expansion, stated of the behaviours of SpecExpand     *)
(***************************************************************************)
\* expand_to_monthly was called and returned a table.
ExpandReturned == pc = "expanded"

\* The records of the returned table that carry the identifier of row i.
RecordsOf(i) ==
    LET OfRow(r) == r.id = df_survival[i].id
    IN  SelectSeq(output_df, OfRow)

SameMonth(a, b) == a.y = b.y /\ a.m = b.m

\* A row with start_date on or before end_date.
WellFormed(row) == ~DateLT(row.end_date, row.start_date)

\* Calendar months counted from year 0.
MonthIndex(date) == date.y * 12 + (date.m - 1)

MonthOfIndex(k) == Date(k \div 12, (k % 12) + 1, 1)

RECURSIVE TotalTime(_)
TotalTime(records) ==
    IF records = <<>> THEN 0 ELSE Head(records).time + TotalTime(Tail(records))

\* C8: in a returned table, a subject whose start_date and end_date lie in
\* the same calendar month (start <= end) has exactly one record, for that
\* month, with time = end day-of-month - start day-of-month + 1.
C8_SingleMonthOneRecord ==
    ExpandReturned =>
        \A i \in 1..Len(df_survival) :
            (/\ WellFormed(df_survival[i])
             /\ SameMonth(df_survival[i].start_date, df_survival[i].end_date)) =>
                \A records \in {RecordsOf(i)} :
                    /\ Len(records) = 1
                    /\ records[1].month = strftime_b_y(df_survival[i].start_date)
                    /\ records[1].time
                          = df_survival[i].end_date.d - df_survival[i].start_date.d + 1

\* The documented scenario: 2021-01-15 to 2021-01-20 gives one record, month
\* "Jan-21", time 6.
C8_Witness ==
    /\ ExpandReturned
    /\ \E i \in 1..Len(df_survival) :
          /\ df_survival[i].start_date = Date(2021, 1, 15)
          /\ df_survival[i].end_date = Date(2021, 1, 20)
          /\ RecordsOf(i) = <<[id |-> df_survival[i].id, end_date |-> Date(2021, 1, 20),
                               month |-> "Jan-21", time |-> 6]>>

\* C9: in a returned table, the times of the records of a subject whose
\* interval spans more than one calendar month (start <= end) sum to
\* (end_date - start_date) in days + 1.
C9_MultiMonthSum ==
    ExpandReturned =>
        \A i \in 1..Len(df_survival) :
            (/\ WellFormed(df_survival[i])
             /\ ~SameMonth(df_survival[i].start_date, df_survival[i].end_date)) =>
                TotalTime(RecordsOf(i))
                    = DaysBetween(df_survival[i].end_date, df_survival[i].start_date) + 1

\* The documented scenario: 2021-01-15 to 2021-03-10 gives 17 + 28 + 10 = 55.
C9_Witness ==
    /\ ExpandReturned
    /\ \E i \in 1..Len(df_survival) :
          /\ df_survival[i].start_date = Date(2021, 1, 15)
          /\ df_survival[i].end_date = Date(2021, 3, 10)
          /\ Len(RecordsOf(i)) = 3
          /\ RecordsOf(i)[1].time = 17
          /\ RecordsOf(i)[2].time = 28
          /\ RecordsOf(i)[3].time = 10
          /\ TotalTime(RecordsOf(i)) = 55

\* C10: in a returned table, every subject with start_date <= end_date has
\* exactly one record per calendar month from the month of start_date
\* through the month of end_date inclusive, in that order: none missing,
\* none repeated, none outside the range.
C10_OneRecordPerMonth ==
    ExpandReturned =>
        \A i \in 1..Len(df_survival) :
            WellFormed(df_survival[i]) =>
                \A records \in {RecordsOf(i)} :
                    LET first == MonthIndex(df_survival[i].start_date)
                        last  == MonthIndex(df_survival[i].end_date)
                    IN  /\ Len(records) = last - first + 1
                        /\ \A k \in 1..Len(records) :
                              records[k].month = strftime_b_y(MonthOfIndex(first + k - 1))
                        /\ \A j, k \in 1..Len(records) :
                              j # k => records[j].month # records[k].month

\* An interval across a year boundary, 2020-11-30 to 2021-02-01, has the
\* four records Nov-20, Dec-20, Jan-21, Feb-21.
C10_Witness ==
    /\ ExpandReturned
    /\ Len(df_survival) = 1
    /\ df_survival[1].start_date = Date(2020, 11, 30)
    /\ df_survival[1].end_date = Date(2021, 2, 1)
    /\ Len(output_df) = 4
    /\ output_df[1].month = "Nov-20"
    /\ output_df[2].month = "Dec-20"
    /\ output_df[3].month = "Jan-21"
    /\ output_df[4].month = "Feb-21"

\* A call of expand_to_monthly has been made, whatever its outcome.
ExpandCalled == pc \in {"expanded", "expand_failed"}

AllWellFormed == \A i \in 1..Len(df_survival) : WellFormed(df_survival[i])

\* C11: when every record of the batch has start_date <= end_date, neither
\* the assertion max(time) <= 31 nor the assertion min(time) >= 1 fails, and
\* every record of a returned table has 1 <= time <= 31.
C11_TimeWithinMonthBounds ==
    (ExpandCalled /\ AllWellFormed) =>
        /\ expand_error \notin {MaxTimeAssertion, MinTimeAssertion}
        /\ ExpandReturned =>
              \A k \in 1..Len(output_df) : output_df[k].time >= 1 /\ output_df[k].time <= 31

\* 2020-11-30 to 2021-01-01 touches both bounds: one day of November, the
\* 31 days of December, one day of January.
C11_Witness ==
    /\ ExpandReturned
    /\ Len(df_survival) = 1
    /\ df_survival[1].start_date = Date(2020, 11, 30)
    /\ df_survival[1].end_date = Date(2021, 1, 1)
    /\ Len(output_df) = 3
    /\ output_df[1].time = 1
    /\ output_df[2].time = 31
    /\ output_df[3].time = 1

\* The days of the intervals of the first n rows, both ends included.
RECURSIVE IntervalDays(_, _)
IntervalDays(df, n) ==
    IF n = 0 THEN 0
    ELSE IntervalDays(df, n - 1) + DaysBetween(df[n].end_date, df[n].start_date) + 1

\* C12: a call given an expected checksum and a list of additional columns,
\* on records with start_date <= end_date, reports a checksum discrepancy
\* exactly when the summed time differs from the checksum; when they are
\* equal it reports nothing and returns the table.
C12_ChecksumReportedIffDifferent ==
    (/\ ExpandCalled
     /\ AllWellFormed
     /\ ~additional_columns.is_none
     /\ TruthyInt(time_checksum)) =>
        /\ expand_error = ChecksumAssertion
              <=> IntervalDays(df_survival, Len(df_survival)) # time_checksum.value
        /\ IntervalDays(df_survival, Len(df_survival)) = time_checksum.value => ExpandReturned

\* C13: a zero-day month record or a checksum mismatch does not make the
\* call raise: no call ends with the minimum-time assertion or the checksum
\* assertion failing.
C13_AnomaliesAreNotRaised ==
    ExpandCalled => expand_error \notin {MinTimeAssertion, ChecksumAssertion}

\* The position in df_survival of the subject a record belongs to.
PositionOf(record) ==
    CHOOSE i \in 1..Len(df_survival) : df_survival[i].id = record.id

\* The calendar month a label of the returned table stands for.
MonthOfLabel(label) ==
    CHOOSE k \in (2020 * 12)..((2019 + NumYears) * 12 + 11) :
        strftime_b_y(MonthOfIndex(k)) = label

\* C15: in a returned table the records of the subjects follow each other in
\* the order of the input rows (so the records of two subjects are never
\* interleaved), and the months of one subject are strictly increasing: from
\* each record to the next, the subject is the same or a later one, and for
\* the same subject the month is a later one.
C15_SubjectsThenMonthsInOrder ==
    ExpandReturned =>
        \A position \in {[k \in 1..Len(output_df) |-> PositionOf(output_df[k])]},
           month \in {[k \in 1..Len(output_df) |-> MonthOfLabel(output_df[k].month)]} :
            \A k \in 1..(Len(output_df) - 1) :
                /\ position[k] <= position[k + 1]
                /\ position[k] = position[k + 1] => month[k] < month[k + 1]

\* Two subjects, the first over three months and the second within one: the
\* three records of the first, January to March, then that of the second.
C15_Witness ==
    /\ ExpandReturned
    /\ Len(df_survival) = 2
    /\ Len(output_df) = 4
    /\ output_df[1].id = df_survival[1].id /\ output_df[1].month = "Jan-21"
    /\ output_df[2].id = df_survival[1].id /\ output_df[2].month = "Feb-21"
    /\ output_df[3].id = df_survival[1].id /\ output_df[3].month = "Mar-21"
    /\ output_df[4].id = df_survival[2].id /\ output_df[4].month = "Jan-21"

\* C18: a call with additional_columns left at its default, on records with
\* start_date <= end_date and without a checksum, returns a table whose
\* columns are identifier, end_date, month, time.
C18_DefaultColumnsReturnsTable ==
    (/\ ExpandCalled
     /\ AllWellFormed
     /\ additional_columns.is_none
     /\ time_checksum.is_none) =>
        /\ ExpandReturned
        /\ output_cols = <<"id", "end_date", "month", "time">>

(***************************************************************************)
(* Claims about the columns of the builder's output (under Spec)           *)
(***************************************************************************)
\* The passthrough columns an additional_columns argument asks for.
PassthroughOf(arg) == IF arg.is_none THEN <<>> ELSE arg.value

C16_InputTablesUnchanged ==
    [][/\ df_in' = df_in
       /\ pc \in {"built", "survival"} => df_survival' = df_survival]_vars

\* A build that converted the start column of its working copy (a start
\* written as text among them) and then raised on the next column: the
\* caller's table still holds the text and has no new column.
C16_Witness ==
    /\ BuildRaised
    /\ build_error = ParseValueError
    /\ cols_parsed = 1
    /\ \E i \in 1..Len(df_in) :
          /\ df_in[i].start_event = Text("2021-04-20")
          /\ "start_date" \notin DOMAIN df_in[i]

\* C17: every row of a returned survival table carries the identifier and
\* the passthrough values of the input row of the same subject, and every
\* record of a returned monthly table carries the identifier, the passthrough
\* values and the end_date of the survival row of its subject.
C17_PassthroughPreserved ==
    /\ BuildReturned =>
          /\ Len(df_survival) = Len(df_in)
          /\ \A i \in 1..Len(df_survival) :
                /\ df_survival[i].id = df_in[i].id
                /\ \A c \in Range(PassthroughOf(build_columns)) :
                      df_survival[i][c] = df_in[i][c]
    /\ ExpandReturned =>
          \A k \in 1..Len(output_df) :
             \E i \in 1..Len(df_survival) :
                /\ output_df[k].id = df_survival[i].id
                /\ output_df[k].end_date = df_survival[i].end_date
                /\ \A c \in Range(PassthroughOf(additional_columns)) :
                      /\ c \in DOMAIN output_df[k]
                      /\ output_df[k][c] = df_survival[i][c]

\* Two subjects built and expanded with both passthrough columns: the first
\* record is the first subject's (F, R1), the last the second subject's
\* (M, R2).
C17_Witness ==
    /\ ExpandReturned
    /\ build_columns = Some(<<"region", "sex">>)
    /\ additional_columns = Some(<<"region", "sex">>)
    /\ Len(df_in) = 2
    /\ output_df[1].id = 101 /\ output_df[1].sex = "F" /\ output_df[1].region = "R1"
    /\ output_df[Len(output_df)].id = 102
    /\ output_df[Len(output_df)].sex = "M"
    /\ output_df[Len(output_df)].region = "R2"

\* C19: a build with a valid priority on a table holding an unparsable date
\* cell raises, and what the error names includes the identifier of the
\* subject and the column of the cell.
C19_UnparsableDateNamesSubjectAndColumn ==
    (/\ pc # "input"
     /\ end_event_priority \in ValidPriorities
     /\ \E i \in 1..Len(df_in), k \in 1..Len(date_columns) :
           ~Parsable(df_in[i][date_columns[k]])) =>
        /\ BuildRaised
        /\ "id" \in DOMAIN build_error_detail
        /\ "column" \in DOMAIN build_error_detail

(***************************************************************************)
(* Further claims about the builder (under Spec)                           *)
(***************************************************************************)
\* The earlier of two dates.
Earlier(a, b) == IF DateLT(b, a) THEN b ELSE a

\* C21: with priority 'primary' or 'competing' and both events present, the
\* end_date of a returned row is the date of the event the priority names
\* when there is no censor date, and the earlier of that date and the censor
\* date when there is one: a censor date before the authoritative event is
\* the end_date.
C21_EndIsEarlierOfAuthoritativeAndCensor ==
    (BuildReturned /\ end_event_priority \in {"primary", "competing"}) =>
        \A i \in 1..Len(df_survival) :
            BothEvents(df_survival[i]) =>
                \A authoritative \in {IF end_event_priority = "primary"
                                      THEN df_survival[i].primary_event_date
                                      ELSE df_survival[i].competing_event_date} :
                    df_survival[i].end_date
                        = IF df_survival[i].censor_date = NaT THEN authoritative
                          ELSE Earlier(authoritative, df_survival[i].censor_date)

\* Under 'primary': primary 2021-05-01, competing 2021-04-20, censor
\* 2021-04-25 gives end_date 2021-04-25, the censor date, neither the
\* authoritative primary event nor the earliest date of the row.
C21_Witness ==
    /\ pc = "built"
    /\ end_event_priority = "primary"
    /\ \E i \in 1..Len(df_survival) :
          /\ df_survival[i].primary_event_date = Date(2021, 5, 1)
          /\ df_survival[i].competing_event_date = Date(2021, 4, 20)
          /\ df_survival[i].censor_date = Date(2021, 4, 25)
          /\ df_survival[i].end_date = Date(2021, 4, 25)

\* C25: a returned survival table has one row per input subject, in the
\* order of the input: row i carries the identifier of input row i (the
\* identifiers of the input being distinct, none is dropped or repeated),
\* and its end_date is not null.
C25_OneRowPerSubject ==
    BuildReturned =>
        /\ Len(df_survival) = Len(df_in)
        /\ \A i \in 1..Len(df_survival) :
              /\ df_survival[i].id = df_in[i].id
              /\ df_survival[i].end_date # NaT
        /\ \A i, j \in 1..Len(df_survival) :
              i # j => df_survival[i].id # df_survival[j].id

\* A returned batch of two subjects, 101 then 102, each with an end date.
C25_Witness ==
    /\ pc = "built"
    /\ Len(df_in) = 2
    /\ Len(df_survival) = 2
    /\ df_survival[1].id = 101 /\ df_survival[1].end_date = Date(2021, 4, 20)
    /\ df_survival[2].id = 102 /\ df_survival[2].end_date = Date(2021, 6, 1)

\* At most one of the two events of a returned row is present.
AtMostOneEvent(row) == row.primary_event_date = NaT \/ row.competing_event_date = NaT

\* C28: whatever the priority, the end_date of a returned row with at most
\* one of the primary and competing dates present is the minimum of the
\* dates present among primary event, competing event and censor date; the
\* value does not depend on the priority.
C28_PriorityIrrelevantWithoutBothEvents ==
    BuildReturned =>
        \A i \in 1..Len(df_survival) :
            AtMostOneEvent(df_survival[i]) =>
                /\ df_survival[i].end_date \in TerminalDates(df_survival[i])
                /\ \A d \in TerminalDates(df_survival[i]) :
                      ~DateLT(d, df_survival[i].end_date)

\* Under 'competing', a subject with only the primary event (2021-05-01) and
\* a later censor date (2021-06-01) ends on the primary event.
C28_Witness ==
    /\ pc = "built"
    /\ end_event_priority = "competing"
    /\ \E i \in 1..Len(df_survival) :
          /\ df_survival[i].primary_event_date = Date(2021, 5, 1)
          /\ df_survival[i].competing_event_date = NaT
          /\ df_survival[i].censor_date = Date(2021, 6, 1)
          /\ df_survival[i].end_date = Date(2021, 5, 1)

(***************************************************************************)
(* Further claims about the pipeline (under SpecPipeline)                  *)
(***************************************************************************)
\* C26: a build on a batch holding a subject without a start date raises and
\* returns no row for any subject; no returned row has a null start_date or
\* a null time_at_risk.
C26_MissingStartAborts ==
    /\ (pc # "input" /\ \E i \in 1..Len(df_in) : df_in[i].start_event = NaT) =>
          /\ BuildRaised
          /\ df_survival = <<>>
    /\ BuildReturned =>
          \A i \in 1..Len(df_survival) :
              /\ df_survival[i].start_date # NaT
              /\ df_survival[i].time_at_risk # NaN

\* A batch of two under 'first': the first subject complete, the second
\* without a start date; every end date was computed and the comparison
\* with the missing start made the end-before-start assertion fail.
C26_Witness ==
    /\ BuildRaised
    /\ end_event_priority = "first"
    /\ build_error = EndBeforeStartAssertion
    /\ rows_applied = 2
    /\ Len(df_in) = 2
    /\ df_in[1].start_event = Date(2021, 4, 20)
    /\ df_in[1].primary_event = Date(2021, 5, 1)
    /\ df_in[2].start_event = NaT
    /\ df_survival = <<>>

(***************************************************************************)
(* Further claims about the expansion (under SpecExpand)                   *)
(***************************************************************************)
\* The days of a calendar month by the Gregorian calendar.
GregorianDays(y, m) ==
    IF m = 2 /\ ((y % 4 = 0 /\ y % 100 # 0) \/ y % 400 = 0) THEN 29
    ELSE <<31, 28, 31, 30, 31, 30, 31, 31, 30, 31, 30, 31>>[m]

\* C22: in a returned table, for a subject whose interval spans more than
\* one calendar month (start <= end), the record of the start month (the
\* first) has time = days in that month - start day-of-month + 1 and the
\* record of the end month (the last) has time = end day-of-month.
C22_StartAndEndMonthTimes ==
    ExpandReturned =>
        \A i \in 1..Len(df_survival) :
            (/\ WellFormed(df_survival[i])
             /\ ~SameMonth(df_survival[i].start_date, df_survival[i].end_date)) =>
                \A records \in {RecordsOf(i)} :
                    /\ records[1].month = strftime_b_y(df_survival[i].start_date)
                    /\ records[1].time
                          = GregorianDays(df_survival[i].start_date.y,
                                          df_survival[i].start_date.m)
                                - df_survival[i].start_date.d + 1
                    /\ records[Len(records)].month = strftime_b_y(df_survival[i].end_date)
                    /\ records[Len(records)].time = df_survival[i].end_date.d

\* 2020-02-15 to 2020-03-28: the start month, a February of 29 days, has
\* time 15 and the end month has time 28.
C22_Witness ==
    /\ ExpandReturned
    /\ Len(df_survival) = 1
    /\ df_survival[1].start_date = Date(2020, 2, 15)
    /\ df_survival[1].end_date = Date(2020, 3, 28)
    /\ Len(output_df) = 2
    /\ output_df[1].month = "Feb-20" /\ output_df[1].time = 15
    /\ output_df[2].month = "Mar-20" /\ output_df[2].time = 28

\* C23: in a returned table, every record of a subject (start <= end) for a
\* month strictly between its start month and its end month has time equal
\* to the number of days of that month: 28, 29, 30 or 31, February by the
\* leap-year rule.
C23_MiddleMonthsAreFull ==
    ExpandReturned =>
        \A i \in 1..Len(df_survival) :
            WellFormed(df_survival[i]) =>
                \A records \in {RecordsOf(i)} :
                    \A k \in 2..(Len(records) - 1) :
                        \A month \in {MonthOfIndex(MonthIndex(df_survival[i].start_date) + k - 1)} :
                            /\ records[k].month = strftime_b_y(month)
                            /\ records[k].time = GregorianDays(month.y, month.m)

\* 2020-01-15 to 2020-03-15 has the leap February in the middle: 29 days.
C23_Witness ==
    /\ ExpandReturned
    /\ Len(df_survival) = 1
    /\ df_survival[1].start_date = Date(2020, 1, 15)
    /\ df_survival[1].end_date = Date(2020, 3, 15)
    /\ Len(output_df) = 3
    /\ output_df[2].month = "Feb-20"
    /\ output_df[2].time = 29

\* C24: a call given a list of additional columns and no checksum, on a
\* table holding a record whose end_date is before its start_date, completes
\* without raising.
C24_MalformedRecordDoesNotRaise ==
    (/\ ExpandCalled
     /\ ~additional_columns.is_none
     /\ ~TruthyInt(time_checksum)
     /\ \E i \in 1..Len(df_survival) : ~WellFormed(df_survival[i])) =>
        ExpandReturned

\* The month starts the loop enumerates for one row.
EnumeratedMonths(row) ==
    date_range(replace_day_1(row.start_date), MonthEnd0(row.end_date))

\* C27: for every row a call was made on, start <= end or not, no month
\* start the loop enumerates is strictly after the row's end_date: the
\* zero-out branch is never taken.
C27_ZeroOutBranchUnreachable ==
    ExpandCalled =>
        \A i \in 1..Len(df_survival) :
            \A months \in {EnumeratedMonths(df_survival[i])} :
                \A k \in 1..Len(months) : ~DateLT(df_survival[i].end_date, months[k])

\* A record ending the day before it starts, 2020-01-29 to 2020-01-28: the
\* one month enumerated starts on 2020-01-01, not after the end date; the
\* time of 0 comes from the single-month subtraction and fails the
\* minimum-time assertion.
C27_Witness ==
    /\ pc = "expand_failed"
    /\ expand_error = MinTimeAssertion
    /\ Len(df_survival) = 1
    /\ df_survival[1].start_date = Date(2020, 1, 29)
    /\ df_survival[1].end_date = Date(2020, 1, 28)
    /\ EnumeratedMonths(df_survival[1]) = <<Date(2020, 1, 1)>>

(***************************************************************************)
(* Claim about DBSessionContextManager (under SpecSession)                 *)
(***************************************************************************)
\* C29: for every with-block that was left, __exit__ rolled the session back
\* if and only if the body raised and committed it otherwise, and the
\* session is closed: it was not committed on exit after the body raised
\* and it is not left open.
C29_RollbackIffRaisedThenClosed ==
    \A k \in 1..Len(sessions_left) :
        /\ sessions_left[k].exit_call = "rollback" <=> sessions_left[k].body_raised
        /\ sessions_left[k].exit_call = "commit" <=> ~sessions_left[k].body_raised
        /\ sessions_left[k].state = "closed"
        /\ sessions_left[k].calls[Len(sessions_left[k].calls)] = "close"

====
